---- MODULE Spec2Model ----
(***************************************************************************)
(* Order consolidation and WhatsApp message synthesis                      *)
(* (saajiidi/OrderVerificationOnWP).                                       *)
(*                                                                         *)
(* Text is modelled as a sequence of one-character strings, so that        *)
(* stripping, splitting, joining and case conversion are computed          *)
(* character by character as Python computes them.  A missing cell         *)
(* (None / NaN) is the value NULL, which is no text.                       *)
(***************************************************************************)
EXTENDS Integers, Sequences, FiniteSets, TLC

VARIABLES
    pc,       \* position of the run
    arg,      \* argument handed to the pure function under study
    res,      \* its latest result
    calls,    \* how often the function has been applied
    df,       \* the input table (sequence of rows)
    config,   \* keys of the column map
    columns,  \* logical columns present in the table
    out,      \* the grouped table returned by process_orders
    messages, \* per grouped row, the locals of the message loop's body
    err,      \* the exception that ended the run, "" if none
    missing   \* the columns named by the exception's message

vars == <<pc, arg, res, calls, df, config, columns, out, messages, err, missing>>

(***************************************************************************)
(* Bounds of the model.                                                    *)
(***************************************************************************)
MaxPhoneLen == 3
MaxTextLen == 4
MaxCalls == 2
MaxRows == 3

(***************************************************************************)
(* Python values and string primitives.                                    *)
(***************************************************************************)
NULL == <<"NaN">>

isna(x) == x = NULL

notna(x) == x # NULL

Digits == {"0", "1", "2", "3", "4", "5", "6", "7", "8", "9"}

isdigit(c) == c \in Digits

Whitespace == {" ", "\n", "\t"}

isspace(c) == c \in Whitespace

Lowers ==
    <<"a", "b", "c", "d", "e", "f", "g", "h", "i", "j", "k", "l", "m",
      "n", "o", "p", "q", "r", "s", "t", "u", "v", "w", "x", "y", "z">>

Uppers ==
    <<"A", "B", "C", "D", "E", "F", "G", "H", "I", "J", "K", "L", "M",
      "N", "O", "P", "Q", "R", "S", "T", "U", "V", "W", "X", "Y", "Z">>

Range(s) == {s[i] : i \in DOMAIN s}

LowerOf == [c \in Range(Uppers) |-> Lowers[CHOOSE i \in 1..26 : Uppers[i] = c]]

UpperOf == [c \in Range(Lowers) |-> Uppers[CHOOSE i \in 1..26 : Lowers[i] = c]]

upper(c) == IF c \in DOMAIN UpperOf THEN UpperOf[c] ELSE c

lower(c) == IF c \in DOMAIN LowerOf THEN LowerOf[c] ELSE c

lower_str(s) == [i \in 1..Len(s) |-> lower(s[i])]

\* the regular expression class \w: letters, digits and the underscore
isword(c) == c \in Digits \cup Range(Lowers) \cup Range(Uppers) \cup {"_"}

startswith(s, p) == Len(s) >= Len(p) /\ SubSeq(s, 1, Len(p)) = p

endswith(s, p) == Len(s) >= Len(p) /\ SubSeq(s, Len(s) - Len(p) + 1, Len(s)) = p

contains(s, p) == \E i \in 1..(Len(s) - Len(p) + 1) : SubSeq(s, i, i + Len(p) - 1) = p

RECURSIVE lstrip(_)
lstrip(s) == IF s # <<>> /\ isspace(Head(s)) THEN lstrip(Tail(s)) ELSE s

RECURSIVE rstrip(_)
rstrip(s) ==
    IF s # <<>> /\ isspace(s[Len(s)]) THEN rstrip(SubSeq(s, 1, Len(s) - 1)) ELSE s

strip(s) == rstrip(lstrip(s))

\* str.split(sep): left to right, non-overlapping, empty pieces kept
RECURSIVE split(_, _)
split(s, sep) ==
    IF ~contains(s, sep) THEN <<s>>
    ELSE LET i == CHOOSE k \in 1..(Len(s) - Len(sep) + 1) :
                      /\ SubSeq(s, k, k + Len(sep) - 1) = sep
                      /\ \A j \in 1..(k - 1) : SubSeq(s, j, j + Len(sep) - 1) # sep
         IN <<SubSeq(s, 1, i - 1)>> \o split(SubSeq(s, i + Len(sep), Len(s)), sep)

\* str.split(): pieces between runs of whitespace, no empty piece
RECURSIVE split_ws(_)
split_ws(s) ==
    LET t == lstrip(s) IN
    IF t = <<>> THEN <<>>
    ELSE LET n == IF \E k \in 1..Len(t) : isspace(t[k])
                  THEN (CHOOSE k \in 1..Len(t) :
                            isspace(t[k]) /\ \A j \in 1..(k - 1) : ~isspace(t[j])) - 1
                  ELSE Len(t)
         IN <<SubSeq(t, 1, n)>> \o split_ws(SubSeq(t, n + 1, Len(t)))

\* sep.join(parts)
RECURSIVE join(_, _)
join(sep, parts) ==
    IF parts = <<>> THEN <<>>
    ELSE IF Len(parts) = 1 THEN parts[1]
    ELSE parts[1] \o sep \o join(sep, Tail(parts))

\* str.capitalize(): first character upper-cased, the rest lower-cased
capitalize(s) ==
    [i \in 1..Len(s) |-> IF i = 1 THEN upper(s[i]) ELSE lower(s[i])]

Map(f(_), s) == [i \in 1..Len(s) |-> f(s[i])]

\* str(n) of a non-negative integer
RECURSIVE str_int(_)
str_int(n) ==
    LET d == <<"0", "1", "2", "3", "4", "5", "6", "7", "8", "9">>[(n % 10) + 1] IN
    IF n < 10 THEN <<d>> ELSE str_int(n \div 10) \o <<d>>

StringsUpTo(A, n) == UNION {[1..k -> A] : k \in 0..n}

(***************************************************************************)
(* clean_phone_number                                                      *)
(***************************************************************************)
\* clean_phone_number without the test for the country code
clean_phone_number_no_country_code(phone) ==
    IF isna(phone) THEN <<>>
    ELSE LET d == SelectSeq(phone, isdigit) IN
         IF startswith(d, <<"0">>) THEN d ELSE <<"0">> \o d

clean_phone_number(phone) ==
    IF isna(phone) THEN <<>>
    ELSE LET d == SelectSeq(phone, isdigit) IN
         IF startswith(d, <<"0">>) THEN <<"0">> \o Tail(d)
         ELSE IF ~(startswith(d, <<"8", "8">>) \/ startswith(d, <<"+", "8", "8">>))
              THEN <<"0">> \o d
              ELSE d

(***************************************************************************)
(* format_text                                                             *)
(***************************************************************************)
capitalize_word(w) ==
    IF contains(w, <<"-">>)
    THEN join(<<"-">>, Map(capitalize, split(w, <<"-">>)))
    ELSE IF contains(w, <<"'">>)
    THEN join(<<"'">>, Map(capitalize, split(w, <<"'">>)))
    ELSE IF contains(w, <<".">>) /\ ~endswith(w, <<".">>)
    THEN join(<<".", " ">>, Map(capitalize, split(w, <<".">>)))
    ELSE capitalize(w)

\* re.sub(r'\.(\w)', r'. \1', s)
RECURSIVE space_after_period(_)
space_after_period(s) ==
    IF s = <<>> THEN <<>>
    ELSE IF Head(s) = "." /\ Len(s) >= 2 /\ isword(s[2])
    THEN <<".", " ", s[2]>> \o space_after_period(SubSeq(s, 3, Len(s)))
    ELSE <<Head(s)>> \o space_after_period(Tail(s))

format_words(part) == join(<<" ">>, Map(capitalize_word, split_ws(part)))

NonEmpty(p) == p # <<>>

format_text(text) ==
    IF isna(text) \/ strip(text) = <<>> THEN <<>>
    ELSE IF contains(text, <<",">>)
    THEN LET parts == Map(strip, split(text, <<",">>)) IN
         join(<<",", " ">>, Map(format_words, SelectSeq(parts, NonEmpty)))
    ELSE format_words(space_after_period(strip(text)))

format_name(name) == IF notna(name) THEN format_text(name) ELSE <<>>

format_address(address_parts) ==
    LET Kept(p) == notna(p) /\ strip(p) # <<>> IN
    join(<<"\n">>, Map(format_text, SelectSeq(address_parts, Kept)))

(***************************************************************************)
(* detect_gender_salutation                                                *)
(***************************************************************************)
female_indicators ==
    { <<"m","s">>, <<"m","i","s","s">>, <<"m","r","s">>, <<"m","s","t">>,
      <<"b","e","g","u","m">>, <<"k","h","a","t","u","n">>,
      <<"a","k","t","e","r">>, <<"p","a","r","v","i","n">>,
      <<"s","u","l","t","a","n","a">>, <<"j","a","h","a","n">>,
      <<"b","i","b","i">>, <<"r","a","n","i">>, <<"d","e","v","i">>,
      <<"n","a","h","a","r">>, <<"f","e","r","d","o","u","s">>,
      <<"a","r","a">>, <<"b","a","n","u">>, <<"f","a","t","e","m","a">>,
      <<"a","i","s","h","a">>, <<"k","h","a","d","i","j","a">>,
      <<"n","u","s","r","a","t">>, <<"f","a","r","h","a","n","a">>,
      <<"s","a","d","i","a">>, <<"j","a","n","n","a","t","u","l">>,
      <<"s","u","m","a","i","y","a">>, <<"t","a","n","j","i","n","a">>,
      <<"f","a","r","i","h","a">>, <<"s","h","a","r","m","i","n">>,
      <<"n","a","s","r","i","n">>, <<"s","a","l","m","a">>,
      <<"s","h","i","r","i","n">>, <<"r","u","m","a","n","a">>,
      <<"s","a","b","i","n","a">>, <<"m","o","u","m","i","t","a">> }

\* detect_gender_salutation matching an indicator anywhere in the name
detect_gender_salutation_substring(name) ==
    IF isna(name) THEN "Sir"
    ELSE IF \E x \in female_indicators : contains(lower_str(name), x)
         THEN "Madam" ELSE "Sir"

detect_gender_salutation(name) ==
    IF isna(name) THEN "Sir"
    ELSE LET name_lower == lower_str(name)
             spaced == [i \in 1..Len(name_lower) |->
                           IF name_lower[i] = "." THEN " " ELSE name_lower[i]]
             parts == split_ws(spaced)
         IN IF \E i \in 1..Len(parts) : parts[i] \in female_indicators
            THEN "Madam" ELSE "Sir"

(***************************************************************************)
(* The table.  A row maps each column key to its cell; the column map is   *)
(* the identity on the keys it holds, so a key of config whose column the  *)
(* table lacks is a key in config but not in columns.  Text cells are      *)
(* strings or NULL; quantity, price and total cells are numbers, NaN for   *)
(* a missing number and Unparseable for a total that is text, no number.   *)
(***************************************************************************)
NaN == -1

\* a total cell that holds text which is no number
Unparseable == -2

RequiredKeys == {"phone_col", "name_col", "product_col"}

AllKeys ==
    RequiredKeys \cup
    {"order_id_col", "sku_col", "quantity_col", "price_col",
     "payment_method_col", "address_col", "order_total_col", "city_col"}

\* str(x) of a text cell
str_cell(x) == IF isna(x) THEN <<"n", "a", "n">> ELSE x

\* str(x) of a number cell
str_num(x) == IF x = NaN THEN <<"n", "a", "n">> ELSE str_int(x)

SEP == <<"\n", "-", " ">>

\* lines 118-121: combine(row)
combine(product, sku) ==
    LET p == IF notna(product) THEN product ELSE <<>>
        s == IF notna(sku) THEN sku ELSE <<>>
    IN IF strip(s) # <<>> /\ lower_str(s) # <<"n", "a", "n">>
       THEN p \o <<" ", "-", " ">> \o s
       ELSE p

\* lines 105-122 on one row: the normalization pass
normalize_row(r, cfg, cols) ==
    LET Fmt(x) == IF notna(x) THEN format_text(x) ELSE <<>>
        Has(k) == k \in cfg /\ k \in cols
    IN [r EXCEPT
          !["phone_col"] = clean_phone_number(@),
          !["name_col"] = format_name(@),
          !["address_col"] = IF Has("address_col") THEN Fmt(@) ELSE @,
          !["city_col"] = IF Has("city_col") THEN Fmt(@) ELSE @,
          !["product_col"] =
              IF Has("sku_col") THEN combine(@, r["sku_col"]) ELSE @]

\* string order of Python on digit strings (the group keys)
RECURSIVE str_less(_, _)
str_less(a, b) ==
    IF a = <<>> THEN b # <<>>
    ELSE IF b = <<>> THEN FALSE
    ELSE IF Head(a) # Head(b)
         THEN (CHOOSE i \in 0..9 : str_int(i) = <<Head(a)>>)
                  < (CHOOSE i \in 0..9 : str_int(i) = <<Head(b)>>)
         ELSE str_less(Tail(a), Tail(b))

RECURSIVE sorted(_)
sorted(S) ==
    IF S = {} THEN <<>>
    ELSE LET m == CHOOSE x \in S : \A y \in S \ {x} : str_less(x, y)
         IN <<m>> \o sorted(S \ {m})

\* the distinct values in the order of their last occurrence
RECURSIVE unique_last_appearance(_)
unique_last_appearance(s) ==
    IF s = <<>> THEN <<>>
    ELSE LET rest == unique_last_appearance(Tail(s))
         IN IF \E i \in 1..Len(rest) : rest[i] = Head(s) THEN rest ELSE <<Head(s)>> \o rest

\* Series.unique(): first occurrences, in order
RECURSIVE unique(_)
unique(s) ==
    IF s = <<>> THEN <<>>
    ELSE LET init == unique(SubSeq(s, 1, Len(s) - 1))
             x == s[Len(s)]
         IN IF \E i \in 1..Len(init) : init[i] = x THEN init ELSE Append(init, x)

\* GroupBy 'first': the first non-null value of the group, None if there is none
RECURSIVE first(_)
first(s) ==
    IF s = <<>> THEN NULL
    ELSE IF notna(Head(s)) THEN Head(s) ELSE first(Tail(s))

\* sum of a column, NaN skipped; texts add up to a text
RECURSIVE nansum(_)
nansum(s) ==
    IF s = <<>> THEN 0
    ELSE LET rest == nansum(Tail(s)) IN
         IF Head(s) = Unparseable \/ rest = Unparseable THEN Unparseable
         ELSE (IF Head(s) = NaN THEN 0 ELSE Head(s)) + rest

Column(rows, k) == [i \in 1..Len(rows) |-> rows[i][k]]

RowsOf(rows, phone) ==
    LET Mine(r) == r["phone_col"] = phone IN SelectSeq(rows, Mine)

\* lines 147-149: one row per order identifier, the first one of the table
unique_orders(rows) ==
    LET idx == {i \in 1..Len(rows) :
                   \A j \in 1..(i - 1) : rows[j]["order_id_col"] # rows[i]["order_id_col"]}
        Keep(i) == i \in idx
    IN Map(LAMBDA i : rows[i], SelectSeq([i \in 1..Len(rows) |-> i], Keep))

\* line 151: the per-phone sums of the rows kept by unique_orders
phone_totals(rows) ==
    LET u == unique_orders(rows) IN
    [ph \in {u[i]["phone_col"] : i \in 1..Len(u)} |->
        nansum(Column(RowsOf(u, ph), "order_total_col"))]

\* line 151 adds a number to a text in some group
mixed_totals(rows) ==
    LET u == unique_orders(rows) IN
    \E i, j \in 1..Len(u) :
        /\ u[i]["phone_col"] = u[j]["phone_col"]
        /\ u[i]["order_total_col"] = Unparseable
        /\ u[j]["order_total_col"] \notin {Unparseable, NaN}

\* line 153: Series.map(phone_totals), NaN for a phone without an entry
order_total(rows, phone) ==
    LET t == phone_totals(rows) IN
    IF phone \in DOMAIN t THEN t[phone] ELSE NaN

\* lines 125-139: one aggregated row per phone
aggregate(rows, phone, cfg, cols) ==
    LET g == RowsOf(rows, phone)
        base ==
            [k \in {"phone_col", "name_col", "order_id_col", "product_col",
                    "quantity_col", "price_col"} |->
                CASE k = "phone_col" -> phone
                  [] k = "name_col" -> first(Column(g, k))
                  [] k = "order_id_col" ->
                        join(<<",", " ">>, Map(str_cell, unique(Column(g, k))))
                  [] k = "product_col" -> join(SEP, Column(g, k))
                  [] OTHER -> join(SEP, Map(str_num, Column(g, k)))]
        opt == {k \in {"address_col", "city_col", "payment_method_col"} :
                   k \in cfg /\ k \in cols}
    IN [k \in DOMAIN base \cup opt |->
           IF k \in opt THEN first(Column(g, k)) ELSE base[k]]

\* line 139: groupby(phone_col) has one group per value of the column, in
\* sorted order (no cell of the column is null after clean_phone_number)
group_keys_without_blank(rows) ==
    sorted({rows[i]["phone_col"] : i \in 1..Len(rows)} \ {<<>>})

group_keys(rows) == sorted({rows[i]["phone_col"] : i \in 1..Len(rows)})

\* lines 124-155 on the normalized table: the grouped table, or the
\* exception raised while it is built
group_orders(normalized, cfg, cols) ==
    LET phones == group_keys(normalized)
        Total(g) ==
            [k \in DOMAIN g \cup {"order_total_col"} |->
                IF k = "order_total_col"
                THEN order_total(normalized, g["phone_col"])
                ELSE g[k]]
        Group(phone) ==
            IF "order_total_col" \in cols
            THEN Total(aggregate(normalized, phone, cfg, cols))
            ELSE aggregate(normalized, phone, cfg, cols)
    IN IF ~({"order_id_col", "quantity_col", "price_col"} \subseteq cfg)
       THEN [err |-> "KeyError", df |-> normalized, out |-> <<>>]
       ELSE IF ~({"order_id_col", "quantity_col", "price_col"} \subseteq cols)
       THEN [err |-> "KeyError", df |-> normalized, out |-> <<>>]
       ELSE IF \E i \in 1..Len(normalized) : isna(normalized[i]["product_col"])
       THEN [err |-> "TypeError", df |-> normalized, out |-> <<>>]
       ELSE IF "order_total_col" \notin cfg
       THEN [err |-> "KeyError", df |-> normalized, out |-> <<>>]
       ELSE IF "order_total_col" \in cols /\ mixed_totals(normalized)
       THEN [err |-> "TypeError", df |-> normalized, out |-> <<>>]
       ELSE [err |-> "", df |-> normalized, out |-> Map(Group, phones)]

\* line 97
required == <<"phone_col", "name_col", "product_col">>

\* line 98 (every key of required is in the column map): the required
\* columns that the table lacks, in the order of required
missing_columns_first_only(cfg, cols) ==
    LET Absent(k) == k \notin cols
        all == SelectSeq(required, Absent)
    IN IF all = <<>> THEN <<>> ELSE <<Head(all)>>

missing_columns(cfg, cols) ==
    LET Absent(k) == k \notin cols IN SelectSeq(required, Absent)

\* lines 92-155.  The result holds the exception raised ("" for none), the
\* table as the call leaves it (it is normalized in place) and the grouped
\* table returned.
process_orders(rows, cfg, cols) ==
    IF ~(RequiredKeys \subseteq cfg)
    THEN [err |-> "KeyError", df |-> rows, out |-> <<>>]
    ELSE IF missing_columns(cfg, cols) # <<>>
    THEN [err |-> "ValueError", df |-> rows, out |-> <<>>,
          missing |-> missing_columns(cfg, cols)]
    ELSE group_orders([i \in 1..Len(rows) |-> normalize_row(rows[i], cfg, cols)],
                      cfg, cols)

(***************************************************************************)
(* whatsapp_order_processor_perfected.py: process_orders of the            *)
(* command-line variant, with its own format_text.                         *)
(***************************************************************************)
\* sp[0].upper() + sp[1:].lower() for the sub-parts that are not empty
perfected_title_parts(w, sep) ==
    Map(capitalize, SelectSeq(split(w, sep), NonEmpty))

perfected_format_word(word) ==
    IF contains(word, <<"-">>)
    THEN join(<<"-">>, perfected_title_parts(word, <<"-">>))
    ELSE IF contains(word, <<"'">>)
    THEN join(<<"'">>, perfected_title_parts(word, <<"'">>))
    ELSE IF contains(word, <<".">>) /\ ~endswith(word, <<".">>)
    THEN join(<<".", " ">>, perfected_title_parts(word, <<".">>))
    ELSE capitalize(word)

perfected_format_words(part) ==
    join(<<" ">>, Map(perfected_format_word, split_ws(part)))

perfected_format_text(text) ==
    IF isna(text) \/ strip(text) = <<>> THEN <<>>
    ELSE IF contains(text, <<",">>)
    THEN LET parts == Map(strip, split(text, <<",">>)) IN
         join(<<",", " ">>, Map(perfected_format_words, SelectSeq(parts, NonEmpty)))
    ELSE perfected_format_words(space_after_period(strip(text)))

\* lines 198-211 on one row
perfected_normalize_row(r, cfg, cols) ==
    LET Fmt(x) == IF notna(x) THEN perfected_format_text(x) ELSE <<>>
    IN [r EXCEPT
          !["phone_col"] = clean_phone_number(@),
          !["name_col"] = Fmt(@),
          !["address_col"] = IF "address_col" \in cols THEN Fmt(@) ELSE @,
          !["city_col"] = IF "city_col" \in cfg /\ "city_col" \in cols THEN Fmt(@) ELSE @,
          !["product_col"] =
              IF "sku_col" \in cfg /\ "sku_col" \in cols
              THEN combine(@, r["sku_col"]) ELSE @]

\* lines 213-254 for one phone: 'sum' adds the totals of all the rows
perfected_aggregate(rows, phone, cfg, cols) ==
    LET g == RowsOf(rows, phone)
        base ==
            [k \in {"phone_col", "name_col", "address_col", "order_id_col",
                    "product_col", "quantity_col", "price_col", "order_total_col"} |->
                CASE k = "phone_col" -> phone
                  [] k = "name_col" -> first(Column(g, k))
                  [] k = "address_col" ->
                        LET a == first(Column(g, k)) IN
                        IF notna(a) THEN perfected_format_text(a) ELSE <<>>
                  [] k = "order_id_col" ->
                        join(<<",", " ">>, Map(str_cell, unique(Column(g, k))))
                  [] k = "product_col" -> join(SEP, Column(g, k))
                  [] k = "order_total_col" -> nansum(Column(g, k))
                  [] OTHER -> join(SEP, Map(str_num, Column(g, k)))]
        opt == {k \in {"city_col", "payment_method_col"} : k \in cfg /\ k \in cols}
    IN [k \in DOMAIN base \cup opt |->
           IF k \in opt THEN first(Column(g, k)) ELSE base[k]]

perfected_group_orders(normalized, cfg, cols) ==
    LET Needed == {"address_col", "order_id_col", "quantity_col", "price_col",
                   "order_total_col"}
        Group(phone) == perfected_aggregate(normalized, phone, cfg, cols)
    IN IF ~(Needed \subseteq cfg) \/ ~(Needed \subseteq cols)
       THEN [err |-> "KeyError", df |-> normalized, out |-> <<>>]
       ELSE IF \E i \in 1..Len(normalized) : isna(normalized[i]["product_col"])
       THEN [err |-> "TypeError", df |-> normalized, out |-> <<>>]
       ELSE [err |-> "", df |-> normalized, out |-> Map(Group, group_keys(normalized))]

\* lines 178-254
perfected_process_orders(rows, cfg, cols) ==
    IF ~(RequiredKeys \subseteq cfg)
    THEN [err |-> "KeyError", df |-> rows, out |-> <<>>]
    ELSE IF missing_columns(cfg, cols) # <<>>
    THEN [err |-> "ValueError", df |-> rows, out |-> <<>>,
          missing |-> missing_columns(cfg, cols)]
    ELSE IF "address_col" \notin cfg
    THEN [err |-> "KeyError", df |-> rows, out |-> <<>>]
    ELSE perfected_group_orders(
             [i \in 1..Len(rows) |-> perfected_normalize_row(rows[i], cfg, cols)],
             cfg, cols)

(***************************************************************************)
(* create_whatsapp_links.  A message line is a sequence of pieces: the     *)
(* template's literals, each one piece, and the characters of the group's  *)
(* values.                                                                 *)
(***************************************************************************)
paid_indicators ==
    { <<"b","k","a","s","h">>, <<"o","n","l","i","n","e">>,
      <<"s","s","l">>, <<"p","a","i","d">> }

\* f"{x:.2f}" of a whole number, and of NaN
format_2f(x) == IF x = NaN THEN <<"n", "a", "n">> ELSE str_int(x) \o <<".", "0", "0">>

\* urllib.parse.quote of the template's literals
quoted_literal ==
    "*Order Verification From DEEN Commerce*" :> "%2AOrder%20Verification%20From%20DEEN%20Commerce%2A" @@
    "Assalamu Alaikum, " :> "Assalamu%20Alaikum%2C%20" @@
    "Sir" :> "Sir" @@
    "Madam" :> "Madam" @@
    "Dear " :> "Dear%20" @@
    "Please verify your order details:" :> "Please%20verify%20your%20order%20details%3A" @@
    "*Order ID:* " :> "%2AOrder%20ID%3A%2A%20" @@
    "*Your Order:*" :> "%2AYour%20Order%3A%2A" @@
    "- " :> "-%20" @@
    " - Qty: " :> "%20-%20Qty%3A%20" @@
    " - Price: " :> "%20-%20Price%3A%20" @@
    " BDT" :> "%20BDT" @@
    "*Total Amount:* " :> "%2ATotal%20Amount%3A%2A%20" @@
    " BDT (PAID)" :> "%20BDT%20%28PAID%29" @@
    "*Collectable Amount:* 0 BDT" :> "%2ACollectable%20Amount%3A%2A%200%20BDT" @@
    "*Shipping Address:*" :> "%2AShipping%20Address%3A%2A" @@
    "Please confirm the order and address." :> "Please%20confirm%20the%20order%20and%20address." @@
    "If any correction is needed, please let us know the possible adjustment." :> "If%20any%20correction%20is%20needed%2C%20please%20let%20us%20know%20the%20possible%20adjustment." @@
    "*Delivery fees apply for returns.*" :> "%2ADelivery%20fees%20apply%20for%20returns.%2A" @@
    "Thank you for shopping with DEEN Commerce! Grab our latest collection on: https://deencommerce.com/" :> "Thank%20you%20for%20shopping%20with%20DEEN%20Commerce%21%20Grab%20our%20latest%20collection%20on%3A%20https%3A//deencommerce.com/"

\* urllib.parse.quote of one character outside the unreserved set
percent_of ==
    " " :> "%20" @@ "\n" :> "%0A" @@ "\t" :> "%09" @@ "," :> "%2C" @@
    "'" :> "%27" @@ "+" :> "%2B" @@ "!" :> "%21"

\* the message left as it is
quote_nothing(message) == message

\* urllib.parse.quote, piece by piece (safe: letters, digits and _ . - ~ /)
quote(message) ==
    [i \in 1..Len(message) |->
        IF message[i] \in DOMAIN quoted_literal THEN quoted_literal[message[i]]
        ELSE IF message[i] \in DOMAIN percent_of THEN percent_of[message[i]]
        ELSE message[i]]

\* row.get(key, '')
row_get(row, k) == IF k \in DOMAIN row THEN row[k] ELSE <<>>

\* lines 196-200: one line per product, quantity and price taken by position
item_lines(products, quantities, prices) ==
    [i \in 1..Len(products) |->
        <<"- ">> \o strip(products[i])
        \o (IF i <= Len(quantities) THEN <<" - Qty: ">> \o strip(quantities[i]) ELSE <<>>)
        \o (IF i <= Len(prices) THEN <<" - Price: ">> \o strip(prices[i]) \o <<" BDT">>
            ELSE <<>>)]

\* lines 206-210
is_paid(row, cfg) ==
    /\ "payment_method_col" \in cfg
    /\ "payment_method_col" \in DOMAIN row
    /\ notna(row["payment_method_col"])
    /\ \E x \in paid_indicators : contains(lower_str(row["payment_method_col"]), x)

\* line 203: float() of a text that is no number is taken for 0
float_text_as_zero(x) == IF x = Unparseable THEN 0 ELSE x

\* line 203: float() of the group's total; a number (NaN too) is returned,
\* Unparseable stands for the ValueError raised
float(x) == x

\* lines 166-234 for one row of the grouped table: the exception raised
\* ("" for none) and the loop body's locals when it ends
compose(row, cfg) ==
    LET phone == row["phone_col"]
        name == row["name_col"]
        salutation == detect_gender_salutation(name)
        formatted_address ==
            format_address(<<row_get(row, "address_col"),
                             IF "city_col" \in cfg THEN row_get(row, "city_col") ELSE <<>> >>)
        products == split(str_cell(row["product_col"]), SEP)
        quantities == split(str_cell(row["quantity_col"]), SEP)
        prices == split(str_cell(row["price_col"]), SEP)
        total_amount == float(row["order_total_col"])
        collectable_amount == IF is_paid(row, cfg) THEN 0 ELSE total_amount
        lines ==
            << <<"*Order Verification From DEEN Commerce*">>,
               <<>>,
               <<"Assalamu Alaikum, ", salutation, "!">>,
               <<>>,
               <<"Dear ">> \o str_cell(name) \o <<",">>,
               <<>>,
               <<"Please verify your order details:">>,
               <<>>,
               <<"*Order ID:* ">> \o row["order_id_col"],
               <<>>,
               <<"*Your Order:*">> >>
            \o item_lines(products, quantities, prices)
            \o << <<>> >>
            \o (IF collectable_amount = 0
                THEN << <<"*Total Amount:* ">> \o format_2f(total_amount) \o <<" BDT (PAID)">>,
                        <<"*Collectable Amount:* 0 BDT">> >>
                ELSE << <<"*Total Amount:* ">> \o format_2f(total_amount) \o <<" BDT">> >>)
            \o << <<>>,
                  <<"*Shipping Address:*">>,
                  formatted_address,
                  <<>>,
                  <<"Please confirm the order and address.">>,
                  <<"If any correction is needed, please let us know the possible adjustment.">>,
                  <<>>,
                  <<"*Delivery fees apply for returns.*">>,
                  <<>>,
                  <<"Thank you for shopping with DEEN Commerce! Grab our latest collection on: https://deencommerce.com/">> >>
        message == join(<<"\n">>, lines)
    IN IF "address_col" \notin cfg \/ "order_total_col" \notin DOMAIN row
       THEN [err |-> "KeyError"]
       ELSE IF total_amount = Unparseable
       THEN [err |-> "ValueError"]
       ELSE [err |-> "",
             formatted_address |-> formatted_address,
             products |-> products,
             quantities |-> quantities,
             prices |-> prices,
             lines |-> lines,
             total_amount |-> total_amount,
             collectable_amount |-> collectable_amount,
             whatsapp_link |->
                 <<"https://wa.me/+88">> \o phone \o <<"?text=">> \o quote(message)]

\* no row is passed over
skipped_never(row) == FALSE

\* every row is passed over
skipped_always(row) == TRUE

\* `if not phone: continue`
skipped(row) == row["phone_col"] = <<>>

\* the loop writing the country code into the phone column as well
link_rows_rewriting_phone(rows, bodies) ==
    [err |-> "",
     out |-> [i \in 1..Len(rows) |->
                 [k \in DOMAIN rows[i] \cup {"whatsapp_link"} |->
                     IF k = "whatsapp_link"
                     THEN (IF bodies[i].err = "" THEN bodies[i].whatsapp_link ELSE NULL)
                     ELSE IF k = "phone_col" THEN <<"+", "8", "8">> \o rows[i][k]
                     ELSE rows[i][k]]],
     messages |-> [i \in 1..Len(rows) |->
                     IF bodies[i].err = "" THEN bodies[i] ELSE [err |-> "skipped"]]]

\* lines 162-234 with the loop's bodies given: the loop stops at the first
\* row whose body raises; the rows before it keep the link already written
\* into the table
link_rows(rows, bodies) ==
    LET Raises(i) == bodies[i].err \notin {"", "skipped"}
        stop == IF \E i \in 1..Len(rows) : Raises(i)
                THEN CHOOSE i \in 1..Len(rows) : Raises(i) /\ \A j \in 1..(i - 1) : ~Raises(j)
                ELSE Len(rows) + 1
        Linked(i) == i < stop /\ bodies[i].err = ""
    IN [err |-> IF stop <= Len(rows) THEN bodies[stop].err ELSE "",
        out |-> [i \in 1..Len(rows) |->
                    [k \in DOMAIN rows[i] \cup {"whatsapp_link"} |->
                        IF k = "whatsapp_link"
                        THEN (IF Linked(i) THEN bodies[i].whatsapp_link ELSE NULL)
                        ELSE rows[i][k]]],
        messages |-> [i \in 1..Len(rows) |->
                        IF Linked(i) THEN bodies[i] ELSE [err |-> "skipped"]]]

\* lines 157-236
create_whatsapp_links(rows, cfg) ==
    link_rows(rows, [i \in 1..Len(rows) |->
                        IF skipped(rows[i]) THEN [err |-> "skipped"]
                        ELSE compose(rows[i], cfg)])

(***************************************************************************)
(* Runs of the pure functions: the argument is drawn in the initial state  *)
(* and the function is applied to its own result up to MaxCalls times.     *)
(***************************************************************************)
PhoneChars == {"0", "1", "8", "+", " "}

PhoneInputs == StringsUpTo(PhoneChars, MaxPhoneLen) \cup {NULL}

TextChars == {"a", "A", ".", ",", "-", "'", " "}

TextInputs == StringsUpTo(TextChars, MaxTextLen)

Idle ==
    /\ df = <<>>
    /\ config = {}
    /\ columns = {}
    /\ out = <<>>
    /\ messages = <<>>
    /\ err = ""
    /\ missing = <<>>

InitPhone ==
    /\ pc = "phone"
    /\ arg \in PhoneInputs
    /\ res = arg
    /\ calls = 0
    /\ Idle

CleanPhoneNumber ==
    /\ pc = "phone"
    /\ calls < MaxCalls
    /\ res' = clean_phone_number(res)
    /\ calls' = calls + 1
    /\ UNCHANGED <<pc, arg, df, config, columns, out, messages, err, missing>>

SpecPhone == InitPhone /\ [][CleanPhoneNumber]_vars

InitText ==
    /\ pc = "text"
    /\ arg \in TextInputs
    /\ res = arg
    /\ calls = 0
    /\ Idle

FormatText ==
    /\ pc = "text"
    /\ calls < MaxCalls
    /\ res' = format_text(res)
    /\ calls' = calls + 1
    /\ UNCHANGED <<pc, arg, df, config, columns, out, messages, err, missing>>

SpecText == InitText /\ [][FormatText]_vars

(***************************************************************************)
(* Runs of the normalization pass on one row of a fully mapped table.      *)
(***************************************************************************)
DefaultRow ==
    [phone_col |-> <<"0", "1", "7">>,
     name_col |-> <<"j", "a", "n", "e">>,
     order_id_col |-> <<"A", "1">>,
     product_col |-> <<"p">>,
     sku_col |-> NULL,
     quantity_col |-> 1,
     price_col |-> 5,
     payment_method_col |-> <<"C", "O", "D">>,
     address_col |-> <<"a">>,
     order_total_col |-> 5,
     city_col |-> <<"b">>]

NormalizeRows ==
    {[DefaultRow EXCEPT !.phone_col = ph, !.name_col = nm, !.sku_col = sku,
                        !.address_col = ad, !.city_col = ad] :
        ph \in {NULL, <<"1", "7">>, <<"0", "1", "7">>, <<"8", "8", "1">>},
        nm \in {NULL, <<"j", "a", "n", "e">>, <<"a", "d", ".", "s">>},
        sku \in {NULL, <<" ">>, <<"s">>},
        ad \in {NULL, <<"a", ",", "b">>, <<",", "a", ".", "b", ".">>}}

InitNormalize ==
    /\ pc = "normalize"
    /\ arg \in NormalizeRows
    /\ res = arg
    /\ calls = 0
    /\ df = <<>>
    /\ config = AllKeys
    /\ columns = AllKeys
    /\ out = <<>>
    /\ messages = <<>>
    /\ err = ""
    /\ missing = <<>>

NormalizationPass ==
    /\ pc = "normalize"
    /\ calls < MaxCalls
    /\ res' = normalize_row(res, config, columns)
    /\ calls' = calls + 1
    /\ UNCHANGED <<pc, arg, df, config, columns, out, messages, err, missing>>

SpecNormalize == InitNormalize /\ [][NormalizationPass]_vars

(***************************************************************************)
(* Runs of the pipeline of app.py: process_orders, then                    *)
(* create_whatsapp_links on its result.  arg keeps the table as uploaded.  *)
(***************************************************************************)
Tables(R) == UNION {[1..n -> R] : n \in 0..MaxRows}

Orders == {<<"A", "1">>, <<"A", "2">>}

\* rows of several customers and orders; every line of an order carries
\* the order's total
TotalRows(total_of) ==
    {[DefaultRow EXCEPT !.phone_col = ph, !.order_id_col = o,
                        !.order_total_col = total_of[o]] :
        ph \in {NULL, <<"1", "7">>, <<"0", "1", "7">>, <<"1", "8">>},
        o \in Orders}

\* line items whose product text may hold a line break and a dash
ItemRows ==
    {[DefaultRow EXCEPT !.phone_col = ph, !.product_col = pr, !.quantity_col = q] :
        ph \in {<<"1", "7">>, <<"1", "8">>},
        pr \in {<<"p">>, <<"p", "\n", "-", " ", "q">>},
        q \in {1, 2}}

\* one customer's order, by payment method and amount
PaymentRows(total) ==
    {[DefaultRow EXCEPT !.payment_method_col = pm, !.order_total_col = total] :
        pm \in {NULL, <<"C", "O", "D">>, <<"b", "K", "a", "s", "h">>}}

\* two line items of one order of one customer, the phone written with and
\* without its leading zero, the first line carrying the payment method
ExampleTable(payment) ==
    LET blank == [k \in AllKeys |-> NULL] IN
    << [blank EXCEPT
          !.phone_col = <<"0", "1", "7", "1", "1", "0", "0", "0", "0", "0", "0">>,
          !.name_col = <<"j", "a", "n", "e", " ", "d", "o", "e">>,
          !.order_id_col = <<"A", "1">>,
          !.product_col = <<"S", "h", "i", "r", "t">>,
          !.quantity_col = 1,
          !.price_col = 500,
          !.order_total_col = 500,
          !.payment_method_col = payment],
       [blank EXCEPT
          !.phone_col = <<"1", "7", "1", "1", "0", "0", "0", "0", "0", "0">>,
          !.name_col = <<"J", "a", "n", "e", " ", "D", "o", "e">>,
          !.order_id_col = <<"A", "1">>,
          !.product_col = <<"P", "a", "n", "t", "s">>,
          !.quantity_col = 1,
          !.price_col = 700,
          !.order_total_col = 500] >>

InputTables ==
    UNION {Tables(TotalRows(t)) : t \in [Orders -> {5, 7}]}
    \cup Tables(ItemRows)
    \cup UNION {Tables(PaymentRows(t)) : t \in {0, 5}}
    \cup {ExampleTable(<<"C", "O", "D">>), ExampleTable(<<"b", "K", "a", "s", "h">>)}

InitOrders ==
    /\ pc = "start"
    /\ df \in InputTables
    /\ arg = df
    /\ res = <<>>
    /\ calls = 0
    /\ config = AllKeys
    /\ columns = AllKeys
    /\ out = <<>>
    /\ messages = <<>>
    /\ err = ""
    /\ missing = <<>>

ProcessOrders ==
    /\ pc = "start"
    /\ \E r \in {process_orders(df, config, columns)} :
        /\ df' = r.df
        /\ out' = r.out
        /\ err' = r.err
        /\ missing' = IF r.err = "ValueError" THEN r.missing ELSE <<>>
        /\ pc' = IF r.err = "" THEN "grouped" ELSE "failed"
    /\ UNCHANGED <<arg, res, calls, config, columns, messages>>

CreateWhatsappLinks ==
    /\ pc = "grouped"
    /\ \E r \in {create_whatsapp_links(out, config)} :
        /\ out' = r.out
        /\ messages' = r.messages
        /\ err' = r.err
        /\ pc' = IF r.err = "" THEN "done" ELSE "failed"
    /\ UNCHANGED <<arg, res, calls, df, config, columns, missing>>

NextOrders == ProcessOrders \/ CreateWhatsappLinks

SpecOrders == InitOrders /\ [][NextOrders]_vars

(***************************************************************************)
(* Runs of process_orders of the command-line variant on the same tables.  *)
(***************************************************************************)
PerfectedProcessOrders ==
    /\ pc = "start"
    /\ \E r \in {perfected_process_orders(df, config, columns)} :
        /\ df' = r.df
        /\ out' = r.out
        /\ err' = r.err
        /\ missing' = IF r.err = "ValueError" THEN r.missing ELSE <<>>
        /\ pc' = IF r.err = "" THEN "grouped" ELSE "failed"
    /\ UNCHANGED <<arg, res, calls, config, columns, messages>>

SpecPerfected == InitOrders /\ [][PerfectedProcessOrders]_vars

(***************************************************************************)
(* Runs of the pipeline on tables that lack columns and with column maps   *)
(* that lack keys: the column map handed to the constructor replaces the   *)
(* default one, and app.py leaves out the key of an optional field set to  *)
(* "None".                                                                 *)
(***************************************************************************)
OptionalKeys ==
    {"address_col", "city_col", "sku_col", "payment_method_col", "order_total_col"}

ColumnRows ==
    {[DefaultRow EXCEPT !.phone_col = ph] : ph \in {NULL, <<"1", "7">>}}

\* the keys of the column map and the columns of the table
Mappings ==
    {<<AllKeys \ S, AllKeys>> : S \in SUBSET OptionalKeys}
    \cup {<<AllKeys, AllKeys \ S>> : S \in SUBSET (OptionalKeys \cup RequiredKeys)}
    \cup {<<AllKeys \ S, AllKeys \ S>> : S \in SUBSET OptionalKeys}

InitColumns ==
    /\ pc = "start"
    /\ df \in Tables(ColumnRows)
    /\ arg = df
    /\ res = <<>>
    /\ calls = 0
    /\ \E m \in Mappings : config = m[1] /\ columns = m[2]
    /\ out = <<>>
    /\ messages = <<>>
    /\ err = ""
    /\ missing = <<>>

SpecColumns == InitColumns /\ [][NextOrders]_vars

\* the run moves on: a step of NextOrders is possible exactly at "start"
\* and at "grouped", and each one changes the position of the run
Proceeds == pc \in {"start", "grouped"} /\ pc' \in {"grouped", "done", "failed"}

\* the runs of SpecColumns in which the pipeline is not held up: app.py
\* calls process_orders and then create_whatsapp_links without waiting
SpecColumnsFair == SpecColumns /\ WF_pc(Proceeds)

(***************************************************************************)
(* Runs of the pipeline on a fully mapped table whose cells hold unusual   *)
(* values: totals that are text, phones with the country code or without   *)
(* a digit, addresses with commas and periods.                             *)
(***************************************************************************)
TextTotalRows ==
    {[DefaultRow EXCEPT !.phone_col = ph, !.order_id_col = o, !.order_total_col = t] :
        ph \in {<<"1", "7">>, <<"1", "8">>},
        o \in Orders,
        t \in {5, Unparseable}}

PhoneRows ==
    {[DefaultRow EXCEPT !.phone_col = ph] :
        ph \in {<<"8", "8", "1">>, <<" ">>, <<"1", "7">>}}

AddressRows ==
    {[DefaultRow EXCEPT !.address_col = ad, !.city_col = ci] :
        ad \in {NULL, <<"a", ",", "b">>, <<",", "a", ".", "b", ".">>},
        ci \in {NULL, <<"b">>}}

ValueTables == Tables(TextTotalRows) \cup Tables(PhoneRows) \cup Tables(AddressRows)

InitValues ==
    /\ pc = "start"
    /\ df \in ValueTables
    /\ arg = df
    /\ res = <<>>
    /\ calls = 0
    /\ config = AllKeys
    /\ columns = AllKeys
    /\ out = <<>>
    /\ messages = <<>>
    /\ err = ""
    /\ missing = <<>>

SpecValues == InitValues /\ [][NextOrders]_vars

(***************************************************************************)
(* Runs of detect_gender_salutation on one name.                           *)
(***************************************************************************)
NameChars == {"m", "s", "M", "t", ".", " "}

NameInputs == StringsUpTo(NameChars, MaxTextLen) \cup {NULL}

InitSalutation ==
    /\ pc = "salutation"
    /\ arg \in NameInputs
    /\ res = <<>>
    /\ calls = 0
    /\ Idle

DetectGenderSalutation ==
    /\ pc = "salutation"
    /\ calls = 0
    /\ res' = detect_gender_salutation(arg)
    /\ calls' = calls + 1
    /\ UNCHANGED <<pc, arg, df, config, columns, out, messages, err, missing>>

SpecSalutation == InitSalutation /\ [][DetectGenderSalutation]_vars

(***************************************************************************)
(* Properties.                                                             *)
(***************************************************************************)
\* the rows of the uploaded table whose phone normalizes to `phone`
UploadedRowsOf(phone) ==
    LET Mine(r) == clean_phone_number(r["phone_col"]) = phone IN SelectSeq(arg, Mine)

\* the total carried by the lines of order `o` in the uploaded table
TotalOfOrder(o) ==
    arg[CHOOSE i \in 1..Len(arg) :
            /\ arg[i]["order_id_col"] = o
            /\ \A j \in 1..(i - 1) : arg[j]["order_id_col"] # o]["order_total_col"]

RECURSIVE SumOfOrders(_)
SumOfOrders(ids) ==
    IF ids = {} THEN 0
    ELSE LET o == CHOOSE x \in ids : TRUE IN TotalOfOrder(o) + SumOfOrders(ids \ {o})

OrdersOf(rows) == {rows[i]["order_id_col"] : i \in 1..Len(rows)}

\* C1: after process_orders every group's order_total is the sum, over the
\* distinct order IDs of the group's rows, of that order's total, each order
\* counted once -- also when an order ID occurs under two phones.
C1_OrderTotalSumsUniqueOrders ==
    pc = "grouped" =>
        \A i \in 1..Len(out) :
            out[i]["order_total_col"]
                = SumOfOrders(OrdersOf(UploadedRowsOf(out[i]["phone_col"])))

\* C2: a group of N >= 1 line items that all share one order ID and the
\* same total T has order_total T.
C2_OneOrderCountedOnce ==
    pc = "grouped" =>
        \A i \in 1..Len(out) :
            LET mine == UploadedRowsOf(out[i]["phone_col"]) IN
            (/\ Len(mine) >= 1
             /\ \A j \in 1..Len(mine) :
                    /\ mine[j]["order_id_col"] = mine[1]["order_id_col"]
                    /\ mine[j]["order_total_col"] = mine[1]["order_total_col"])
            => out[i]["order_total_col"] = mine[1]["order_total_col"]

\* C3: process_orders of the command-line variant gives a group of N line
\* items of one order with total T the order_total T, not the sum of the
\* totals of its lines.  (Checked under SpecPerfected.)
C3_PerfectedCountsOrderOnce ==
    pc = "grouped" =>
        \A i \in 1..Len(out) :
            LET mine == UploadedRowsOf(out[i]["phone_col"]) IN
            (/\ Len(mine) >= 1
             /\ \A j \in 1..Len(mine) :
                    /\ mine[j]["order_id_col"] = mine[1]["order_id_col"]
                    /\ mine[j]["order_total_col"] = mine[1]["order_total_col"])
            => out[i]["order_total_col"] = mine[1]["order_total_col"]

\* C4: the grouped table has exactly one group per distinct normalized
\* phone (the empty one included), and every uploaded row lies in exactly
\* the group keyed by clean_phone_number of its phone: the group's
\* quantity and price entries are those of its rows, in row order, so no
\* row is lost and none is counted twice.
C4_OneGroupPerPhone ==
    pc = "grouped" =>
        /\ {out[i]["phone_col"] : i \in 1..Len(out)}
             = {clean_phone_number(arg[j]["phone_col"]) : j \in 1..Len(arg)}
        /\ \A i, j \in 1..Len(out) : i # j => out[i]["phone_col"] # out[j]["phone_col"]
        /\ \A i \in 1..Len(out) :
             LET mine == UploadedRowsOf(out[i]["phone_col"]) IN
             /\ split(out[i]["quantity_col"], SEP)
                  = [j \in 1..Len(mine) |-> str_int(mine[j]["quantity_col"])]
             /\ split(out[i]["price_col"], SEP)
                  = [j \in 1..Len(mine) |-> str_int(mine[j]["price_col"])]

\* a table with a missing phone and two spellings of one phone has been grouped
C4_Witness ==
    /\ pc = "grouped"
    /\ Len(out) = 2
    /\ out[1]["phone_col"] = <<>>
    /\ out[2]["phone_col"] = <<"0", "1", "7">>
    /\ Len(arg) = 3
    /\ \E i, j \in 1..Len(arg) :
          arg[i]["phone_col"] = <<"1", "7">> /\ arg[j]["phone_col"] = <<"0", "1", "7">>

\* C5: for every group with a link, the product, quantity and unit-price
\* lists that create_whatsapp_links splits off have the length of the
\* group's rows, and their i-th entries are the i-th row's values -- for
\* every product text.
C5_ItemListsAligned ==
    pc = "done" =>
        \A i \in 1..Len(out) :
            messages[i].err = "" =>
                LET mine == RowsOf(df, out[i]["phone_col"])
                    m == messages[i]
                IN /\ Len(m.products) = Len(mine)
                   /\ Len(m.quantities) = Len(mine)
                   /\ Len(m.prices) = Len(mine)
                   /\ \A j \in 1..Len(mine) :
                        /\ m.products[j] = mine[j]["product_col"]
                        /\ m.quantities[j] = str_int(mine[j]["quantity_col"])
                        /\ m.prices[j] = str_int(mine[j]["price_col"])

\* C6: format_text is idempotent: formatting a formatted text changes nothing.
C6_FormatTextIdempotent == [][pc = "text" /\ calls >= 1 => res' = res]_vars

\* C7: for a non-null input clean_phone_number removes every non-digit;
\* digits starting with "0" or with "88" are returned unchanged, any other
\* digits get exactly one "0" in front; the result holds digits only.
C7_CleanPhoneNumber ==
    (pc = "phone" /\ calls = 1 /\ arg # NULL) =>
        LET d == SelectSeq(arg, isdigit) IN
        /\ \A i \in 1..Len(res) : res[i] \in Digits
        /\ (d # <<>> /\ d[1] = "0") => res = d
        /\ (Len(d) >= 2 /\ d[1] = "8" /\ d[2] = "8") => res = d
        /\ ~(d # <<>> /\ d[1] = "0") /\ ~(Len(d) >= 2 /\ d[1] = "8" /\ d[2] = "8")
             => res = <<"0">> \o d

\* a number written with the country code and a plus sign has been cleaned
C7_Witness ==
    /\ pc = "phone"
    /\ calls = 1
    /\ arg = <<"+", "8", "8">>
    /\ res = <<"8", "8">>

\* C8: clean_phone_number returns the empty string for a null input and for
\* a blank one (empty, whitespace only, or without any digit).
C8_BlankPhoneIsEmpty ==
    (/\ pc = "phone"
     /\ calls = 1
     /\ (arg = NULL \/ \A i \in 1..Len(arg) : arg[i] \notin Digits))
    => res = <<>>

\* C9: the normalization pass is idempotent on a row: a second pass leaves
\* phone, name, address, city and product text as the first pass made them.
C9_NormalizationIdempotent ==
    [][pc = "normalize" /\ calls >= 1 =>
         \A k \in {"phone_col", "name_col", "address_col", "city_col", "product_col"} :
             res'[k] = res[k]]_vars

\* the message marks the total as PAID
MarksPaid(m) == \E l \in 1..Len(m.lines) : contains(m.lines[l], <<" BDT (PAID)">>)

\* the message has a collectable-amount line
ShowsCollectable(m) ==
    \E l \in 1..Len(m.lines) : m.lines[l] = <<"*Collectable Amount:* 0 BDT">>

\* the group's payment method is present and names a paid indicator
PaidMethod(g) ==
    /\ notna(g["payment_method_col"])
    /\ \E x \in paid_indicators : contains(lower_str(g["payment_method_col"]), x)

\* C10: for every group with a link: a payment method naming a paid
\* indicator gives collectable amount 0 and a PAID mark; any other group
\* gets collectable amount = order_total, no PAID mark and no
\* collectable-amount line (also a cash-on-delivery group with total 0).
C10_PaidBranch ==
    pc = "done" =>
        \A i \in 1..Len(out) :
            messages[i].err = "" =>
                IF PaidMethod(out[i])
                THEN messages[i].collectable_amount = 0 /\ MarksPaid(messages[i])
                ELSE /\ messages[i].collectable_amount = out[i]["order_total_col"]
                     /\ ~MarksPaid(messages[i])
                     /\ ~ShowsCollectable(messages[i])

\* a rendered amount: digits, a period, two digits
TwoDecimalPlaces(s) ==
    /\ Len(s) >= 4
    /\ s[Len(s) - 2] = "."
    /\ \A i \in (1..Len(s)) \ {Len(s) - 2} : s[i] \in Digits

\* C11: in every composed message each item's price, the total amount and
\* the collectable amount are rendered with exactly two decimal places.
C11_MoneyHasTwoDecimals ==
    pc = "done" =>
        \A i \in 1..Len(out) :
            messages[i].err = "" =>
                \A l \in 1..Len(messages[i].lines) :
                    LET line == messages[i].lines[l] IN
                    /\ \A p \in 1..Len(line) :
                          line[p] = " - Price: "
                              => TwoDecimalPlaces(SubSeq(line, p + 1, Len(line) - 1))
                    /\ (Len(line) > 0 /\ line[1] = "*Total Amount:* ")
                          => TwoDecimalPlaces(SubSeq(line, 2, Len(line) - 1))
                    /\ (Len(line) > 0 /\ line[1] = "*Collectable Amount:* ")
                          => TwoDecimalPlaces(SubSeq(line, 2, Len(line) - 1))
                    /\ line # <<"*Collectable Amount:* 0 BDT">>

\* the characters urllib.parse.quote leaves as they are
Unreserved == Range(Lowers) \cup Range(Uppers) \cup Digits \cup {"_", ".", "-", "~", "/"}

\* a piece of a percent-encoded text
IsEncoded(p) ==
    \/ p \in Unreserved
    \/ \E c \in DOMAIN percent_of : percent_of[c] = p
    \/ \E k \in DOMAIN quoted_literal : quoted_literal[k] = p

\* the piece of the message that an encoded piece stands for
Decoded(p) ==
    IF \E c \in DOMAIN percent_of : percent_of[c] = p
    THEN CHOOSE c \in DOMAIN percent_of : percent_of[c] = p
    ELSE IF \E k \in DOMAIN quoted_literal : quoted_literal[k] = p
    THEN CHOOSE k \in DOMAIN quoted_literal : quoted_literal[k] = p
    ELSE p

\* C12: for every group with a non-empty phone the link is
\* "https://wa.me/+88", the group's phone unchanged, "?text=", and the
\* percent-encoding of the message, which is the composed lines joined by
\* one newline each; nothing else.
C12_LinkFormat ==
    pc = "done" =>
        \A i \in 1..Len(out) :
            out[i]["phone_col"] # <<>> =>
                LET phone == out[i]["phone_col"]
                    link == out[i]["whatsapp_link"]
                    text == SubSeq(link, Len(phone) + 3, Len(link))
                    message == join(<<"\n">>, messages[i].lines)
                IN /\ messages[i].err = ""
                   /\ Len(link) >= Len(phone) + 2
                   /\ link[1] = "https://wa.me/+88"
                   /\ SubSeq(link, 2, Len(phone) + 1) = phone
                   /\ link[Len(phone) + 2] = "?text="
                   /\ Len(text) = Len(message)
                   /\ \A j \in 1..Len(text) :
                         IsEncoded(text[j]) /\ Decoded(text[j]) = message[j]

\* a link has been written for a customer with two line items
C12_Witness ==
    /\ pc = "done"
    /\ Len(out) = 1
    /\ out[1]["phone_col"] = <<"0", "1", "8">>
    /\ Len(arg) = 2
    /\ out[1]["whatsapp_link"] # NULL
    /\ \E j \in 1..Len(out[1]["whatsapp_link"]) : out[1]["whatsapp_link"][j] = "%0A"

\* C13: when the table lacks the column of a required field, process_orders
\* fails with the error that names every required column the table lacks,
\* no cell of the table has been normalized and no group has been built.
C13_MissingRequiredColumns ==
    (pc # "start" /\ RequiredKeys \subseteq config /\ ~(RequiredKeys \subseteq columns)) =>
        /\ pc = "failed"
        /\ err = "ValueError"
        /\ Range(missing) = RequiredKeys \ columns
        /\ Len(missing) = Cardinality(RequiredKeys \ columns)
        /\ df = arg
        /\ out = <<>>
        /\ messages = <<>>

\* a table without two of the required columns has been refused
C13_Witness ==
    /\ pc = "failed"
    /\ err = "ValueError"
    /\ missing = <<"phone_col", "product_col">>
    /\ Len(df) = 2
    /\ df[1]["phone_col"] = <<"1", "7">>

\* the keys process_orders reads without a default
MandatoryKeys == RequiredKeys \cup {"order_id_col", "quantity_col", "price_col"}

\* C14: with any subset of address, city, SKU, payment method and
\* order-total absent (column not in the table, or key not in the column
\* map), process_orders completes without an error and returns one group
\* per phone, without the absent fields.
C14_OptionalFieldsDegrade ==
    [][(/\ pc = "start"
        /\ MandatoryKeys \subseteq config
        /\ MandatoryKeys \subseteq columns)
       => /\ pc' = "grouped"
          /\ err' = ""
          /\ {out'[i]["phone_col"] : i \in 1..Len(out')}
               = {clean_phone_number(arg[j]["phone_col"]) : j \in 1..Len(arg)}
          /\ \A i, j \in 1..Len(out') :
                i # j => out'[i]["phone_col"] # out'[j]["phone_col"]
          /\ \A i \in 1..Len(out') :
                (DOMAIN out'[i]) \cap OptionalKeys \subseteq config \cap columns]_vars

\* the lines of message m are the parts of the template in their order,
\* with one item line for each of the n rows given
PartsInOrder(m, rows) ==
    LET L == m.lines
        n == Len(rows)
        t == IF Len(L) >= n + 13 /\ contains(L[n + 13], <<" BDT (PAID)">>) THEN 2 ELSE 1
    IN /\ Len(L) = n + t + 22
       /\ L[1] = <<"*Order Verification From DEEN Commerce*">>
       /\ L[2] = <<>>
       /\ Len(L[3]) = 3 /\ L[3][1] = "Assalamu Alaikum, " /\ L[3][2] \in {"Sir", "Madam"}
       /\ L[4] = <<>>
       /\ L[5] = <<"Dear ">> \o rows[1]["name_col"] \o <<",">>
       /\ L[6] = <<>>
       /\ L[7] = <<"Please verify your order details:">>
       /\ L[8] = <<>>
       /\ Len(L[9]) >= 1 /\ L[9][1] = "*Order ID:* "
       /\ L[10] = <<>>
       /\ L[11] = <<"*Your Order:*">>
       /\ \A j \in 1..n :
             LET product == strip(rows[j]["product_col"]) IN
             /\ Len(L[j + 11]) > Len(product)
             /\ L[j + 11][1] = "- "
             /\ SubSeq(L[j + 11], 2, Len(product) + 1) = product
             /\ L[j + 11][Len(product) + 2] = " - Qty: "
       /\ L[n + 12] = <<>>
       /\ Len(L[n + 13]) >= 1 /\ L[n + 13][1] = "*Total Amount:* "
       /\ t = 2 => L[n + 14] = <<"*Collectable Amount:* 0 BDT">>
       /\ L[n + t + 13] = <<>>
       /\ L[n + t + 14] = <<"*Shipping Address:*">>
       /\ L[n + t + 16] = <<>>
       /\ L[n + t + 17] = <<"Please confirm the order and address.">>
       /\ L[n + t + 18] =
            <<"If any correction is needed, please let us know the possible adjustment.">>
       /\ L[n + t + 19] = <<>>
       /\ L[n + t + 20] = <<"*Delivery fees apply for returns.*">>
       /\ L[n + t + 21] = <<>>
       /\ L[n + t + 22] =
            <<"Thank you for shopping with DEEN Commerce! Grab our latest collection on: https://deencommerce.com/">>

\* C15: every composed message has its parts in the fixed order: title,
\* greeting with salutation, customer name, order-id line, one item line
\* per line item of the group in row order, total/collectable-amount lines,
\* shipping-address block, closing remarks; none missing, none repeated.
C15_MessagePartsInOrder ==
    pc = "done" =>
        \A i \in 1..Len(out) :
            messages[i].err = "" =>
                PartsInOrder(messages[i], RowsOf(df, out[i]["phone_col"]))

\* the text holds token t between delimiters (whitespace, period, or an end)
HasToken(text, t) ==
    LET Delimiter(c) == c \in Whitespace \cup {"."} IN
    \E i \in 1..Len(text) :
        LET j == i + Len(t) - 1 IN
        /\ j <= Len(text)
        /\ lower_str(SubSeq(text, i, j)) = t
        /\ i = 1 \/ Delimiter(text[i - 1])
        /\ j = Len(text) \/ Delimiter(text[j + 1])

\* C16: detect_gender_salutation returns "Madam" if and only if the input
\* is a string and one of its whitespace- or period-delimited tokens,
\* lower-cased, is a feminine marker (the whole token); it returns "Sir" for
\* every other string and for a non-string input.
C16_Salutation ==
    (pc = "salutation" /\ calls = 1) =>
        /\ res \in {"Madam", "Sir"}
        /\ res = "Madam" <=>
              (arg # NULL /\ \E t \in female_indicators : HasToken(arg, t))

\* a title followed by a period has been recognized
C16_Witness ==
    /\ pc = "salutation"
    /\ calls = 1
    /\ arg = <<"M", "s", ".", "t">>
    /\ res = "Madam"

\* the distinct values of s in the order of their first appearance
RECURSIVE FirstAppearances(_)
FirstAppearances(s) ==
    IF s = <<>> THEN <<>>
    ELSE LET Other(x) == x # Head(s)
         IN <<Head(s)>> \o FirstAppearances(SelectSeq(Tail(s), Other))

\* C17: every group's order_ids is the list of the distinct order
\* identifiers of the group's rows, each once, in the order of their first
\* appearance among the group's rows, joined by ", ".
C17_OrderIds ==
    pc = "grouped" =>
        \A i \in 1..Len(out) :
            out[i]["order_id_col"]
                = join(<<",", " ">>,
                       FirstAppearances(Column(UploadedRowsOf(out[i]["phone_col"]),
                                               "order_id_col")))

\* a customer's second order came first and again after the first one
C17_Witness ==
    /\ pc = "grouped"
    /\ Len(out) = 1
    /\ Len(arg) = 3
    /\ arg[1]["order_id_col"] = <<"A", "2">>
    /\ arg[2]["order_id_col"] = <<"A", "1">>
    /\ arg[3]["order_id_col"] = <<"A", "2">>
    /\ out[1]["order_id_col"] = <<"A", "2", ",", " ", "A", "1">>

\* C18: every group's name is the formatted name of its first row, and its
\* address, city and payment method are the values of its first row, also
\* when that value is missing and a later row of the group has one.
C18_FirstRowValues ==
    pc = "grouped" =>
        \A i \in 1..Len(out) :
            LET uploaded == UploadedRowsOf(out[i]["phone_col"])
                mine == RowsOf(df, out[i]["phone_col"])
            IN /\ out[i]["name_col"] = format_name(uploaded[1]["name_col"])
               /\ \A k \in {"address_col", "city_col", "payment_method_col"} :
                     k \in DOMAIN out[i] => out[i][k] = mine[1][k]

\* the group and the message that the two rows of the example give,
\* whatever the payment method
ExampleGroup ==
    /\ Len(out) = 1
    /\ out[1]["phone_col"] = <<"0", "1", "7", "1", "1", "0", "0", "0", "0", "0", "0">>
    /\ out[1]["order_id_col"] = <<"A", "1">>
    /\ out[1]["order_total_col"] = 500
    /\ messages[1].err = ""
    /\ messages[1].products = << <<"S", "h", "i", "r", "t">>, <<"P", "a", "n", "t", "s">> >>
    /\ \E l \in 1..(Len(messages[1].lines) - 1) :
          /\ startswith(messages[1].lines[l], <<"- ", "S", "h", "i", "r", "t">>)
          /\ startswith(messages[1].lines[l + 1], <<"- ", "P", "a", "n", "t", "s">>)

\* C19: the two rows of the end-to-end example give one group keyed
\* "01711000000" with order_ids "A1", order_total 500, products Shirt then
\* Pants, and a message with both item lines; paid by COD the message shows
\* the amount 500.00 to collect and no PAID mark; paid by bKash it marks
\* PAID and shows the collectable amount 0.00.
C19_EndToEndExample ==
    /\ (pc = "done" /\ arg = ExampleTable(<<"C", "O", "D">>)) =>
          /\ ExampleGroup
          /\ messages[1].collectable_amount = 500
          /\ ~MarksPaid(messages[1])
          /\ \E l \in 1..Len(messages[1].lines) :
                messages[1].lines[l]
                    = <<"*Total Amount:* ", "5", "0", "0", ".", "0", "0", " BDT">>
    /\ (pc = "done" /\ arg = ExampleTable(<<"b", "K", "a", "s", "h">>)) =>
          /\ ExampleGroup
          /\ messages[1].collectable_amount = 0
          /\ MarksPaid(messages[1])
          /\ \E l \in 1..Len(messages[1].lines) :
                messages[1].lines[l]
                    = <<"*Collectable Amount:* ", "0", ".", "0", "0", " BDT">>

\* C20: a group whose normalized phone is empty has no link after
\* create_whatsapp_links and is still a row of the output table; every
\* group with a non-empty phone has a link when composition succeeds.
C20_EmptyPhoneHasNoLink ==
    pc = "done" =>
        /\ {out[i]["phone_col"] : i \in 1..Len(out)}
             = {clean_phone_number(arg[j]["phone_col"]) : j \in 1..Len(arg)}
        /\ \A i \in 1..Len(out) :
              IF out[i]["phone_col"] = <<>>
              THEN out[i]["whatsapp_link"] = NULL
              ELSE /\ out[i]["whatsapp_link"] # NULL
                   /\ out[i]["whatsapp_link"][1] = "https://wa.me/+88"

\* rows without a phone were grouped with a customer's rows and only the
\* customer got a link
C20_Witness ==
    /\ pc = "done"
    /\ Len(out) = 2
    /\ out[1]["phone_col"] = <<>>
    /\ out[1]["whatsapp_link"] = NULL
    /\ out[2]["phone_col"] = <<"0", "1", "8">>
    /\ out[2]["whatsapp_link"] # NULL

Letters == Range(Lowers) \cup Range(Uppers)

\* C21: in the output of format_text every sub-word delimited by a hyphen,
\* an apostrophe or a period is title-cased on its own: a letter that
\* starts a sub-word is upper-case and a letter that follows a letter is
\* lower-case, also in words with several kinds of delimiter and in
\* comma-separated text.
C21_SubWordsTitleCased ==
    (pc = "text" /\ calls >= 1) =>
        \A i \in 1..Len(res) :
            res[i] \in Letters =>
                IF i > 1 /\ res[i - 1] \in Letters
                THEN res[i] \in Range(Lowers)
                ELSE res[i] \in Range(Uppers)

\* C22: for text without a comma, format_text puts a space after every
\* period that is not at the end of the text, whatever follows the period
\* in the input (letter, hyphen, apostrophe or another period).
C22_SpaceAfterEveryPeriod ==
    (pc = "text" /\ calls = 1 /\ ~contains(arg, <<",">>)) =>
        \A i \in 1..(Len(res) - 1) : res[i] = "." => res[i + 1] = " "

\* every group has had its link decided: a link for a phone, none without
LinksDecided ==
    \A i \in 1..Len(out) :
        IF out[i]["phone_col"] = <<>>
        THEN out[i]["whatsapp_link"] = NULL
        ELSE out[i]["whatsapp_link"] # NULL

\* C23: every run of process_orders followed by create_whatsapp_links
\* eventually ends, either completed with the link of every group decided
\* or failed with an error; it never completes with a group that has a
\* phone and no link.  (Checked under SpecColumnsFair.)
C23_RunEnds ==
    /\ <>((pc = "failed" /\ err # "") \/ (pc = "done" /\ LinksDecided))
    /\ [](pc = "done" => LinksDecided)
    /\ [](pc \in {"start", "grouped", "done"} => err = "")

\* a run has failed in the message loop, after the table was grouped
C23_Witness ==
    /\ pc = "failed"
    /\ err = "KeyError"
    /\ "address_col" \notin config
    /\ Len(out) = 2
    /\ Len(arg) = 3

\* C24: the group of a phone, with its order_total and its link, depends
\* only on the rows of that phone: it is the group that the pipeline gives
\* for the table of these rows alone, whatever the other rows are.
C24_GroupIndependent ==
    /\ pc = "grouped" =>
          \A i \in 1..Len(out) :
              out[i] = process_orders(UploadedRowsOf(out[i]["phone_col"]),
                                      config, columns).out[1]
    /\ pc = "done" =>
          \A i \in 1..Len(out) :
              out[i] = create_whatsapp_links(
                           process_orders(UploadedRowsOf(out[i]["phone_col"]),
                                          config, columns).out,
                           config).out[1]

\* C25: create_whatsapp_links changes nothing in the grouped table but the
\* whatsapp_link column: the groups, their order and every other field of
\* every group are as before the call.
C25_OnlyLinkColumnChanges ==
    [][pc = "grouped" =>
          /\ Len(out') = Len(out)
          /\ \A i \in 1..Len(out) :
                /\ DOMAIN out'[i] = DOMAIN out[i] \cup {"whatsapp_link"}
                /\ \A k \in DOMAIN out[i] : out'[i][k] = out[i][k]]_vars

\* links were written into a table of two groups with three line items
C25_Witness ==
    /\ pc = "done"
    /\ Len(out) = 2
    /\ Len(arg) = 3
    /\ out[1]["phone_col"] = <<"0", "1", "7">>
    /\ out[2]["phone_col"] = <<"0", "1", "8">>
    /\ out[1]["whatsapp_link"] # NULL
    /\ out[2]["whatsapp_link"] # NULL

\* C26: if composing the message of one group raises (its total is text
\* that is no number), the run fails with the error and no table is
\* delivered, also when links of other groups were already written; a run
\* completes only with every total rendered as it is, never as zero.
C26_ComposeErrorAbortsRun ==
    /\ pc = "failed" => err # ""
    /\ pc = "done" =>
          \A i \in 1..Len(out) :
              out[i]["phone_col"] # <<>> =>
                  /\ messages[i].err = ""
                  /\ out[i]["order_total_col"] # Unparseable
                  /\ messages[i].total_amount = out[i]["order_total_col"]
    /\ (/\ pc \in {"done", "failed"}
        /\ \E i \in 1..Len(out) :
              out[i]["phone_col"] # <<>> /\ out[i]["order_total_col"] = Unparseable)
       => pc = "failed" /\ err = "ValueError"

\* the second group's total was text: the run failed although the first
\* group's link had been written
C26_Witness ==
    /\ pc = "failed"
    /\ err = "ValueError"
    /\ Len(out) = 2
    /\ out[1]["whatsapp_link"] # NULL
    /\ out[2]["order_total_col"] = Unparseable
    /\ out[2]["whatsapp_link"] = NULL

\* C27: with one of address, city, SKU and payment method left unmapped
\* (its key is not in the column map, its column is in the table), the
\* pipeline completes and every group with a phone has a link.
C27_UnmappedOptionalField ==
    \A k \in {"address_col", "city_col", "sku_col", "payment_method_col"} :
        (/\ config = AllKeys \ {k}
         /\ columns = AllKeys
         /\ pc \in {"done", "failed"})
        => pc = "done" /\ LinksDecided

\* C28: the shipping address of a group's message is the text of the
\* address and the city stored in the group's record (the ones that are not
\* blank, one per line).
C28_AddressAsStored ==
    pc = "done" =>
        \A i \in 1..Len(out) :
            messages[i].err = "" =>
                LET Kept(p) == strip(p) # <<>> IN
                messages[i].formatted_address
                    = join(<<"\n">>,
                           SelectSeq(<<out[i]["address_col"], out[i]["city_col"]>>, Kept))

\* C29: in every link the phone after "https://wa.me/+88" starts with "0",
\* does not start with the country code, and is more than the digit "0".
C29_LinkPhoneStartsWithZero ==
    pc = "done" =>
        \A i \in 1..Len(out) :
            out[i]["whatsapp_link"] # NULL =>
                LET link == out[i]["whatsapp_link"] IN
                /\ link[1] = "https://wa.me/+88"
                /\ link[2] = "0"
                /\ link[3] # "?text="

\* C30: with the order-total column mapped and a numeric total in every
\* row, every group has a numeric order_total after process_orders and no
\* message shows the total "nan", also when two phones share an order ID.
C30_TotalDefined ==
    pc \in {"grouped", "done"} =>
        \A i \in 1..Len(out) :
            /\ out[i]["order_total_col"] # NaN
            /\ (pc = "done" /\ messages[i].err = "") =>
                  \A l \in 1..Len(messages[i].lines) :
                      ~contains(messages[i].lines[l], <<"n", "a", "n">>)

====
